---------------------------- MODULE Spec2Model ----------------------------
(***************************************************************************)
(* A model of briefcase/commands/base.py: create_config, the               *)
(* BaseCommand.parse_config method and the BaseCommand.download_url        *)
(* method.                                                                 *)
(*                                                                         *)
(* download_url is modelled step by step (one action per blocking point:   *)
(* the call up to the cache test, the GET, the open of the target file,    *)
(* each chunk of the streamed body, and the end or failure of the stream). *)
(* create_config is a pure function of the class, the mapping and the      *)
(* iteration order of Python sets of strings in the running process.       *)
(*                                                                         *)
(* Three specifications: Spec (calls of download_url on one file system),  *)
(* SpecCreate (one call of create_config on every class and mapping within *)
(* the bounds) and SpecParse (calls of parse_config on one command).       *)
(***************************************************************************)
EXTENDS Integers, Sequences, FiniteSets, TLC

VARIABLES
    \* ---- the file system and the download_url call in progress ----
    dirs,        \* the cache directories that exist
    files,       \* target path -> size in bytes, for the files that exist
    pc,          \* position of the download_url call in progress ("idle": none)
    call,        \* arguments of the current (or last) download_url call
    response,    \* the response of self.requests.get in this call
    total,       \* local variable total, after int(total)
    downloaded,  \* local variable downloaded
    nchunks,     \* chunks delivered by response.iter_content in this call
    done,        \* local variable done
    line,        \* what the call last printed on the terminal line
    gets,        \* invocations of self.requests.get during this call
    result,      \* how the current (or last) download_url call ended
    partial,     \* history: the files whose writing call ended in an exception
    \* ---- create_config ----
    hashOrder,   \* iteration order of sets of strings in this process
    cc_klass,    \* argument klass of the create_config call
    cc_config,   \* argument config
    cc_msg,      \* argument msg
    cc_result,   \* what the create_config call returned or raised
    \* ---- parse_config ----
    fs,          \* configuration files: filename -> content, for those that exist
    global_config, \* self.global_config
    apps,        \* self.apps
    cfg_call,    \* argument filename of the last parse_config call
    cfg_result   \* how the last parse_config call ended

dlvars  == <<dirs, files, pc, call, response, total, downloaded, nchunks,
             done, line, gets, result, partial>>
ccvars  == <<cc_klass, cc_config, cc_msg, cc_result>>
cfgvars == <<fs, global_config, apps, cfg_call, cfg_result>>
vars    == <<dlvars, hashOrder, ccvars, cfgvars>>

(***************************************************************************)
(* Bounds of the model and constants of the program.                       *)
(***************************************************************************)
MaxChunks == 3

ChunkSize == 1048576

BarWidth == 50

Max(a, b) == IF a >= b THEN a ELSE b

(***************************************************************************)
(* URLs.  A URL is a sequence of tokens: the scheme and network location   *)
(* as one token, then the characters of the rest.                          *)
(***************************************************************************)
URLs ==
    { <<"http://h1", "/", "a">>,
      <<"http://h2", "/", "b", "/", "a", "?", "/", "c">>,
      <<"http://h1", "/", "b", "/">>,
      <<"http://h1">> }

Dirs == {"d1", "d2"}

RECURSIVE TakeUntil(_, _)
TakeUntil(s, stops) ==
    IF s = <<>> \/ Head(s) \in stops THEN <<>>
    ELSE <<Head(s)>> \o TakeUntil(Tail(s), stops)

\* urlparse(url).path: what follows the network location, up to the query
\* or the fragment.
urlparse_path(url) == TakeUntil(Tail(url), {"?", "#"})

\* str.split(sep): the segments between the separators, in order.
RECURSIVE split(_, _)
split(s, sep) ==
    IF s = <<>> THEN << <<>> >>
    ELSE LET rest == split(Tail(s), sep)
         IN  IF Head(s) = sep
             THEN << <<>> >> \o rest
             ELSE << <<Head(s)>> \o Head(rest) >> \o Tail(rest)

Last(s) == s[Len(s)]

\* line 212
cache_name(url) == Last(split(urlparse_path(url), "/"))

\* cache_name, tabulated over the URLs of the model.
cache_names == [u \in URLs |-> cache_name(u)]

\* line 214: download_path / cache_name.  Joining the empty name gives the
\* directory itself.
filename_of(c) == <<c.download_path, cache_names[c.url]>>

\* Path.exists(), in a file system with directories ds and files fls
ExistsIn(p, ds, fls) == IF p[2] = <<>> THEN p[1] \in ds ELSE p \in DOMAIN fls

Exists(p) == ExistsIn(p, dirs, files)


(***************************************************************************)
(* Responses.                                                              *)
(***************************************************************************)
StatusCodes == {200, 204, 404, 500}

\* The value of the content-length header, as the string the server sent.
ContentLengths ==
    { <<"0">>, <<"1">>, <<"3", "1", "4", "5", "7", "2", "8">>, <<"x">> }

Headers == { <<>> } \cup { [h \in {"content-length"} |-> v] : v \in ContentLengths }

header_is_none(h, k) == k \notin DOMAIN h

DigitVal ==
    ("0" :> 0) @@ ("1" :> 1) @@ ("2" :> 2) @@ ("3" :> 3) @@ ("4" :> 4) @@
    ("5" :> 5) @@ ("6" :> 6) @@ ("7" :> 7) @@ ("8" :> 8) @@ ("9" :> 9)

is_decimal(s) == s # <<>> /\ \A i \in 1..Len(s) : s[i] \in DOMAIN DigitVal

RECURSIVE int(_)
int(s) == IF s = <<>> THEN 0 ELSE 10 * int(SubSeq(s, 1, Len(s) - 1)) + DigitVal[Last(s)]

\* The lengths of the chunks response.iter_content(chunk_size) may deliver,
\* and of the bodies response.content may hold.
ChunkLens == {1, ChunkSize}

BodyLens == {0, 1, ChunkSize}

\* '█' * n and '.' * n: a string of n characters, empty when n <= 0.
repeat_len(n) == Max(n, 0)

\* line 239: int(50 * downloaded / total).  The quotient is not negative
\* for the totals drawn here, so int() of it is its floor (the float
\* division is exact to the integer part far beyond these sizes); the
\* division by a zero total is raised by iter_chunk.
done_of(dl, tot) == (50 * dl) \div tot

\* line 240
progress_line(dn) ==
    [kind |-> "progress", filled |-> repeat_len(dn),
     dots |-> repeat_len(BarWidth - dn), pct |-> 2 * dn]

NoLine == [kind |-> "none"]

NoCall == [url |-> <<"">>, download_path |-> ""]

NoResponse == [status_code |-> 0, headers |-> <<>>]

Returned(p) == [kind |-> "return", path |-> p]

Raised(e, u, s, opened) ==
    [kind |-> "raise", error |-> e, url |-> u, status_code |-> s, opened |-> opened]

\* A variant of classify that lets every status below 400 through.
classify_lenient(s) ==
    IF s = 404 THEN "MissingNetworkResourceError"
    ELSE IF s >= 400 THEN "BadNetworkResourceError"
    ELSE "ok"

\* lines 218-226
classify(s) ==
    IF s = 404 THEN "MissingNetworkResourceError"
    ELSE IF s # 200 THEN "BadNetworkResourceError"
    ELSE "ok"

(***************************************************************************)
(* download_url                                                            *)
(***************************************************************************)
DlInit ==
    /\ dirs = {}
    /\ files = <<>>
    /\ pc = "idle"
    /\ call = NoCall
    /\ response = NoResponse
    /\ total = 0
    /\ downloaded = 0
    /\ nchunks = 0
    /\ done = 0
    /\ line = NoLine
    /\ gets = 0
    /\ result = [kind |-> "none"]
    /\ partial = {}

\* A variant of download_url without the cache test.
download_url_always_fetch(u, d) ==
    /\ pc = "idle"
    /\ call' = [url |-> u, download_path |-> d]
    /\ dirs' = dirs \cup {d}
    /\ gets' = 0
    /\ response' = NoResponse
    /\ total' = 0 /\ downloaded' = 0 /\ nchunks' = 0 /\ done' = 0
    /\ line' = NoLine
    /\ result' = [kind |-> "pending"]
    /\ pc' = "get"
    /\ UNCHANGED <<files, partial>>

\* lines 212-216 and 242-244: the call, up to the cache test, and the whole
\* call on a cache hit.
download_url(u, d) ==
    /\ pc = "idle"
    /\ call' = [url |-> u, download_path |-> d]
    /\ dirs' = dirs \cup {d}
    /\ gets' = 0
    /\ response' = NoResponse
    /\ total' = 0 /\ downloaded' = 0 /\ nchunks' = 0 /\ done' = 0
    /\ UNCHANGED <<files, partial>>
    /\ LET filename == filename_of([url |-> u, download_path |-> d])
       IN  IF Exists(filename)'
           THEN /\ line' = [kind |-> "already downloaded", name |-> cache_names[u]]
                /\ result' = Returned(filename)
                /\ pc' = "idle"
           ELSE /\ line' = NoLine
                /\ result' = [kind |-> "pending"]
                /\ pc' = "get"

\* A variant of requests_get that creates the target file before the test
\* of the status.
requests_get_open_first(s, h) ==
    /\ pc = "get"
    /\ gets' = gets + 1
    /\ response' = [status_code |-> s, headers |-> h]
    /\ files' = (filename_of(call) :> 0) @@ files
    /\ IF classify(s) = "ok"
       THEN /\ pc' = "open"
            /\ UNCHANGED result
       ELSE /\ pc' = "idle"
            /\ result' = Raised(classify(s), call.url, s, FALSE)
    /\ UNCHANGED <<dirs, call, total, downloaded, nchunks, done, line, partial>>

\* lines 217-226: the GET and the test of its status.
requests_get(s, h) ==
    /\ pc = "get"
    /\ gets' = gets + 1
    /\ response' = [status_code |-> s, headers |-> h]
    /\ IF classify(s) = "ok"
       THEN /\ pc' = "open"
            /\ UNCHANGED result
       ELSE /\ pc' = "idle"
            /\ result' = Raised(classify(s), call.url, s, FALSE)
    /\ UNCHANGED <<dirs, files, call, total, downloaded, nchunks, done, line, partial>>

\* line 217: the GET itself fails (no response).
requests_get_raises ==
    /\ pc = "get"
    /\ gets' = gets + 1
    /\ pc' = "idle"
    /\ result' = Raised("ConnectionError", call.url, 0, FALSE)
    /\ UNCHANGED <<dirs, files, call, response, total, downloaded, nchunks, done, line, partial>>

\* lines 229-231 and 234-235: the target file is created empty, and the
\* advertised length, when there is one, is parsed.
open_file ==
    /\ pc = "open"
    /\ files' = (filename_of(call) :> 0) @@ files
    /\ IF header_is_none(response.headers, "content-length")
       THEN /\ pc' = "content"
            /\ UNCHANGED <<total, result, partial>>
       ELSE LET t == response.headers["content-length"]
            IN  IF is_decimal(t)
                THEN /\ total' = int(t)
                     /\ pc' = "iter"
                     /\ UNCHANGED <<result, partial>>
                ELSE /\ pc' = "idle"
                     /\ result' = Raised("ValueError", call.url, response.status_code, TRUE)
                     /\ partial' = partial \cup {filename_of(call)}
                     /\ UNCHANGED total
    /\ UNCHANGED <<dirs, call, response, downloaded, nchunks, done, line, gets>>

\* lines 232, 241, 244: no length advertised, the body is written in one go.
write_content(n) ==
    /\ pc = "content"
    /\ files' = [files EXCEPT ![filename_of(call)] = @ + n]
    /\ line' = [kind |-> "newline"]
    /\ result' = Returned(filename_of(call))
    /\ pc' = "idle"
    /\ UNCHANGED <<dirs, call, response, total, downloaded, nchunks, done, gets, partial>>

\* line 232: reading response.content fails.
content_raises ==
    /\ pc = "content"
    /\ result' = Raised("StreamError", call.url, response.status_code, TRUE)
    /\ pc' = "idle"
    /\ partial' = partial \cup {filename_of(call)}
    /\ UNCHANGED <<dirs, files, call, response, total, downloaded, nchunks, done, line, gets>>

\* lines 236-240: one chunk of the stream.
iter_chunk(n) ==
    /\ pc = "iter"
    /\ nchunks < MaxChunks
    /\ nchunks' = nchunks + 1
    /\ downloaded' = downloaded + n
    /\ files' = [files EXCEPT ![filename_of(call)] = @ + n]
    /\ IF total = 0
       THEN /\ pc' = "idle"
            /\ result' = Raised("ZeroDivisionError", call.url, response.status_code, TRUE)
            /\ partial' = partial \cup {filename_of(call)}
            /\ UNCHANGED <<done, line>>
       ELSE /\ done' = done_of(downloaded', total)
            /\ line' = progress_line(done')
            /\ UNCHANGED <<pc, result, partial>>
    /\ UNCHANGED <<dirs, call, response, total, gets>>

\* lines 236, 241, 244: the stream is exhausted.
iter_done ==
    /\ pc = "iter"
    /\ line' = [kind |-> "newline"]
    /\ result' = Returned(filename_of(call))
    /\ pc' = "idle"
    /\ UNCHANGED <<dirs, files, call, response, total, downloaded, nchunks, done, gets, partial>>

\* A variant of iter_raises that removes the file it was writing.
iter_raises_cleanup ==
    /\ pc = "iter"
    /\ result' = Raised("StreamError", call.url, response.status_code, TRUE)
    /\ pc' = "idle"
    /\ files' = [p \in DOMAIN files \ {filename_of(call)} |-> files[p]]
    /\ partial' = partial \cup {filename_of(call)}
    /\ UNCHANGED <<dirs, call, response, total, downloaded, nchunks, done, line, gets>>

\* line 236: response.iter_content fails.
iter_raises ==
    /\ pc = "iter"
    /\ result' = Raised("StreamError", call.url, response.status_code, TRUE)
    /\ pc' = "idle"
    /\ partial' = partial \cup {filename_of(call)}
    /\ UNCHANGED <<dirs, files, call, response, total, downloaded, nchunks, done, line, gets>>

(***************************************************************************)
(* create_config                                                           *)
(*                                                                         *)
(* A class is known by the signature of its constructor: the declared      *)
(* parameters in declaration order (self apart), those that have a         *)
(* default, whether a catch-all **kwargs follows, and the error, if any,   *)
(* its body raises on a value of the wrong type.  A mapping is a function  *)
(* from keys to values.                                                    *)
(***************************************************************************)
ParamNames == {"a", "b", "c"}

MaxParams == 2

Values == {"v", "bad"}

Range(f) == { f[x] : x \in DOMAIN f }

Injective(f) == \A x, y \in DOMAIN f : f[x] = f[y] => x = y

ParamLists ==
    UNION { { ps \in [1..n -> ParamNames] : Injective(ps) } : n \in 0..MaxParams }

Klasses ==
    UNION { { [params |-> ps, defaults |-> ds, kwargs |-> k, raises |-> r] :
                ds \in SUBSET Range(ps), k \in BOOLEAN,
                r \in {"none", "TypeError", "ValueError"} } : ps \in ParamLists }

Configs == UNION { [K -> Values] : K \in SUBSET ParamNames }

Msgs == {"Global configuration", "Configuration for 'app1'"}

\* The orders in which a process may iterate over a set of these strings.
HashOrders == { o \in [1..Cardinality(ParamNames) -> ParamNames] : Injective(o) }

\* Iteration over the set S in a process whose order is order.
set_iter(S, order) == SelectSeq(order, LAMBDA x : x \in S)

\* inspect.signature(klass.__init__).parameters, in declaration order.
signature(klass) ==
    <<"self">> \o klass.params \o (IF klass.kwargs THEN <<"kwargs">> ELSE <<>>)

\* line 23, the binding of the keyword arguments of klass(**config): the
\* error it raises, or "ok".
bind(klass, config) ==
    IF ~klass.kwargs /\ DOMAIN config \ Range(klass.params) # {}
        THEN "unexpected keyword argument"
    ELSE IF (Range(klass.params) \ klass.defaults) \ DOMAIN config # {}
        THEN "missing required argument"
    ELSE "ok"

\* The body of the constructor: it raises on a value of the wrong type, if
\* the class checks its values, and else stores what it was given.
constructor_body(klass, config) ==
    IF klass.raises # "none" /\ \E k \in DOMAIN config : config[k] = "bad"
    THEN [kind |-> "raise", error |-> klass.raises, message |-> "raised by the constructor"]
    ELSE [kind |-> "return",
          value |-> [kind |-> "instance", klass |-> klass,
                     fields |-> [n \in Range(klass.params) \cup DOMAIN config |->
                                   IF n \in DOMAIN config THEN config[n] ELSE "default"]]]

\* line 23: klass(**config)
Construct(klass, config) ==
    IF bind(klass, config) # "ok"
    THEN [kind |-> "raise", error |-> "TypeError", message |-> bind(klass, config)]
    ELSE constructor_body(klass, config)

\* line 36
quote(arg) == "'" \o arg \o "'"

\* str.join
RECURSIVE join(_, _)
join(sep, strs) ==
    IF strs = <<>> THEN ""
    ELSE IF Len(strs) = 1 THEN strs[1]
    ELSE strs[1] \o sep \o join(sep, Tail(strs))

RECURSIVE map_quote(_)
map_quote(names) ==
    IF names = <<>> THEN <<>> ELSE <<quote(Head(names))>> \o map_quote(Tail(names))

\* lines 28-33
required_args(klass) ==
    { name \in Range(signature(klass)) :
        name \notin klass.defaults /\ name \notin {"self", "kwargs"} }

\* lines 39-44
incomplete_error(msg, missing) ==
    [kind |-> "raise", error |-> "BriefcaseConfigError",
     message |-> msg \o " is incomplete (missing " \o missing \o ")"]

\* A variant of create_config that also rejects every key the class does not
\* declare.
create_config_strict(klass, config, msg, order) ==
    LET r == Construct(klass, config)
    IN  IF (r.kind = "raise" /\ r.error = "TypeError")
           \/ DOMAIN config \ Range(klass.params) # {}
        THEN LET missing_args == required_args(klass) \ DOMAIN config
                 missing == join(", ", map_quote(set_iter(missing_args, order)))
             IN  incomplete_error(msg, missing)
        ELSE r

\* lines 21-44, in a process that iterates over sets in the order order
create_config(klass, config, msg, order) ==
    LET r == Construct(klass, config)
    IN  IF r.kind = "raise" /\ r.error = "TypeError"
        THEN LET missing_args == required_args(klass) \ DOMAIN config
                 missing == join(", ", map_quote(set_iter(missing_args, order)))
             IN  incomplete_error(msg, missing)
        ELSE r

\* One call of create_config, on arguments drawn when the process starts.
apply_create_config ==
    /\ cc_result.kind = "none"
    /\ cc_result' = create_config(cc_klass, cc_config, cc_msg, hashOrder)
    /\ UNCHANGED <<cc_klass, cc_config, cc_msg, hashOrder>>

(***************************************************************************)
(* parse_config                                                            *)
(***************************************************************************)
\* briefcase.config.GlobalConfig and AppConfig, by their signatures.
GLOBAL_CONFIG_CLASS ==
    [params |-> <<"a", "b">>, defaults |-> {}, kwargs |-> TRUE, raises |-> "none"]

APP_CONFIG_CLASS ==
    [params |-> <<"a", "b", "c">>, defaults |-> {"c"}, kwargs |-> TRUE, raises |-> "none"]

Filenames == {"pyproject.toml", "missing.toml"}

AppNames == {"app1", "app2"}

MaxApps == 2

RawConfigs == UNION { [K -> {"v"}] : K \in SUBSET ParamNames }

AppEntries == [name : AppNames, config : RawConfigs]

AppLists ==
    UNION { { as \in [1..n -> AppEntries] :
                \A i, j \in 1..n : as[i].name = as[j].name => i = j } : n \in 0..MaxApps }

\* What a configuration file holds: text that does not parse, or the global
\* options and the options of each app, in the order of the file.
Contents ==
    { [kind |-> "malformed"] }
    \cup { [kind |-> "toml", global |-> g, apps |-> as] : g \in RawConfigs, as \in AppLists }

\* briefcase.config.parse_config on an open file
config_parse(content) ==
    IF content.kind = "malformed"
    THEN [kind |-> "raise", error |-> "ParseError", message |-> "invalid content"]
    ELSE [kind |-> "return", global |-> content.global, apps |-> content.apps]

NotFound ==
    [kind |-> "raise", error |-> "BriefcaseConfigError",
     message |-> "configuration file not found"]

\* lines 184-193: the apps of the file, in order, up to the first that fails
RECURSIVE create_apps(_, _, _)
create_apps(current, entries, order) ==
    IF entries = <<>> THEN [apps |-> current, result |-> [kind |-> "return"]]
    ELSE LET e == Head(entries)
             r == create_config(APP_CONFIG_CLASS, e.config,
                                "Configuration for '" \o e.name \o "'", order)
         IN  IF r.kind = "raise"
             THEN [apps |-> current, result |-> r]
             ELSE create_apps((e.name :> r.value) @@ current, Tail(entries), order)

\* lines 167-196, the body of the try block on an open file
parse_open_file(content, order, gc, as) ==
    LET parsed == config_parse(content)
    IN  IF parsed.kind = "raise"
        THEN [global_config |-> gc, apps |-> as, result |-> parsed]
        ELSE LET g == create_config(GLOBAL_CONFIG_CLASS, parsed.global,
                                    "Global configuration", order)
             IN  IF g.kind = "raise"
                 THEN [global_config |-> gc, apps |-> as, result |-> g]
                 ELSE LET a == create_apps(as, parsed.apps, order)
                      IN  [global_config |-> g.value, apps |-> a.apps,
                           result |-> a.result]

\* A variant of parse_config whose except clause catches every error.
parse_config_catch_all(filename) ==
    /\ cfg_call' = filename
    /\ IF filename \notin DOMAIN fs
       THEN /\ cfg_result' = NotFound
            /\ UNCHANGED <<global_config, apps>>
       ELSE LET out == parse_open_file(fs[filename], hashOrder, global_config, apps)
            IN  /\ global_config' = out.global_config
                /\ apps' = out.apps
                /\ cfg_result' = IF out.result.kind = "raise" THEN NotFound ELSE out.result
    /\ UNCHANGED <<fs, hashOrder>>

\* lines 166-196
parse_config(filename) ==
    /\ cfg_call' = filename
    /\ IF filename \notin DOMAIN fs
       THEN /\ cfg_result' = NotFound
            /\ UNCHANGED <<global_config, apps>>
       ELSE LET out == parse_open_file(fs[filename], hashOrder, global_config, apps)
            IN  /\ global_config' = out.global_config
                /\ apps' = out.apps
                /\ cfg_result' = out.result
    /\ UNCHANGED <<fs, hashOrder>>

CcIdle ==
    /\ cc_klass = [params |-> <<>>, defaults |-> {}, kwargs |-> FALSE, raises |-> "none"]
    /\ cc_config = <<>>
    /\ cc_msg = ""
    /\ cc_result = [kind |-> "none"]

CfgIdle ==
    /\ fs = <<>>
    /\ global_config = [kind |-> "None"]
    /\ apps = <<>>
    /\ cfg_call = ""
    /\ cfg_result = [kind |-> "none"]

Init ==
    /\ DlInit
    /\ hashOrder = CHOOSE o \in HashOrders : TRUE
    /\ CcIdle
    /\ CfgIdle

Next ==
    \/ \E u \in URLs, d \in Dirs : download_url(u, d) /\ UNCHANGED <<hashOrder, ccvars, cfgvars>>
    \/ \E s \in StatusCodes, h \in Headers : requests_get(s, h) /\ UNCHANGED <<hashOrder, ccvars, cfgvars>>
    \/ requests_get_raises /\ UNCHANGED <<hashOrder, ccvars, cfgvars>>
    \/ open_file /\ UNCHANGED <<hashOrder, ccvars, cfgvars>>
    \/ \E n \in BodyLens : write_content(n) /\ UNCHANGED <<hashOrder, ccvars, cfgvars>>
    \/ content_raises /\ UNCHANGED <<hashOrder, ccvars, cfgvars>>
    \/ \E n \in ChunkLens : iter_chunk(n) /\ UNCHANGED <<hashOrder, ccvars, cfgvars>>
    \/ iter_done /\ UNCHANGED <<hashOrder, ccvars, cfgvars>>
    \/ iter_raises /\ UNCHANGED <<hashOrder, ccvars, cfgvars>>

Spec == Init /\ [][Next]_vars

InitCreate ==
    /\ DlInit
    /\ CfgIdle
    /\ hashOrder \in HashOrders
    /\ cc_klass \in Klasses
    /\ cc_config \in Configs
    /\ cc_msg \in Msgs
    /\ cc_result = [kind |-> "none"]

NextCreate == apply_create_config /\ UNCHANGED <<dlvars, cfgvars>>

SpecCreate == InitCreate /\ [][NextCreate]_vars

InitParse ==
    /\ DlInit
    /\ CcIdle
    /\ hashOrder \in HashOrders
    /\ fs \in UNION { [F -> Contents] : F \in SUBSET {"pyproject.toml"} }
    /\ global_config = [kind |-> "None"]
    /\ apps = <<>>
    /\ cfg_call = ""
    /\ cfg_result = [kind |-> "none"]

NextParse == \E f \in Filenames : parse_config(f) /\ UNCHANGED <<dlvars, ccvars>>

SpecParse == InitParse /\ [][NextParse]_vars

(***************************************************************************)
(* Properties of download_url.                                             *)
(***************************************************************************)
Target(u, d) == filename_of([url |-> u, download_path |-> d])

HttpStatusErrors == {"MissingNetworkResourceError", "BadNetworkResourceError"}

\* C1: a download_url call whose target path already exists issues no
\* request, writes nothing and returns that path; a path that exists keeps
\* existing and a call that returns a path returns one that exists, so every
\* later call for the same URL and directory is such a cache hit.
C1_CacheHitIdempotent ==
    [][\A u \in URLs, d \in Dirs :
         /\ Exists(Target(u, d)) => Exists(Target(u, d))'
         /\ result'.kind = "return" =>
                result'.path = filename_of(call') /\ ExistsIn(result'.path, dirs', files')
         /\ (pc = "idle" /\ Exists(Target(u, d))
               /\ call' = [url |-> u, download_path |-> d])
            => /\ pc' = "idle"
               /\ gets' = 0
               /\ files' = files
               /\ result' = Returned(Target(u, d))]_vars

\* C1 witness: a call answered from the cache with a file of the cache.
C1_Witness ==
    /\ pc = "idle" /\ result.kind = "return" /\ gets = 0
    /\ line.kind = "already downloaded"
    /\ result.path \in DOMAIN files
    /\ files[result.path] > 0

\* C2: the status of the response decides the outcome: 404 fails with
\* MissingNetworkResourceError(url), every other status but 200 fails with
\* BadNetworkResourceError(url, status), and only 200 goes on to write the
\* body and return the path.
C2_StatusClassification ==
    /\ response.status_code = 404 =>
           pc = "idle" /\ result = Raised("MissingNetworkResourceError", call.url, 404, FALSE)
    /\ response.status_code \notin {0, 200, 404} =>
           pc = "idle" /\ result = Raised("BadNetworkResourceError", call.url,
                                          response.status_code, FALSE)
    /\ response.status_code = 200 =>
           ~(result.kind = "raise" /\ result.error \in HttpStatusErrors)
    /\ (result.kind = "raise" /\ result.error = "MissingNetworkResourceError") =>
           response.status_code = 404
    /\ (result.kind = "raise" /\ result.error = "BadNetworkResourceError") =>
           response.status_code \notin {0, 200, 404}
    /\ (gets = 1 /\ result.kind = "return") => response.status_code = 200
    /\ pc \in {"open", "content", "iter"} => response.status_code = 200

\* C2 witness: a response with status 500 ended the call with
\* BadNetworkResourceError carrying 500.
C2_Witness ==
    /\ pc = "idle" /\ response.status_code = 500
    /\ result.kind = "raise" /\ result.error = "BadNetworkResourceError"
    /\ result.status_code = 500

\* C7: a call that got status 200 with an advertised content-length and
\* whose stream ran to its end returns the target path, and the file there
\* holds exactly the bytes of the chunks delivered.
C7_CompletedStream ==
    (/\ pc = "idle" /\ gets = 1 /\ response.status_code = 200
     /\ ~header_is_none(response.headers, "content-length")
     /\ is_decimal(response.headers["content-length"])
     /\ ~(result.kind = "raise" /\ result.error = "StreamError"))
    => /\ result = Returned(filename_of(call))
       /\ Exists(filename_of(call))
       /\ files[filename_of(call)] = downloaded

\* C8: after every chunk the bar is 50 characters wide, done is
\* floor(50 * downloaded / total), the percentage is 2 * done and within
\* 0..100, it is 100 when downloaded reaches total, and every chunk gets its
\* update, whatever the advertised total and the chunks delivered.
C8_ProgressBar ==
    /\ ~(result.kind = "raise" /\ result.error = "ZeroDivisionError")
    /\ (pc = "iter" /\ nchunks > 0) =>
          /\ line.kind = "progress"
          /\ 50 * downloaded >= done * total
          /\ 50 * downloaded < (done + 1) * total
          /\ line.filled = done
          /\ line.dots = BarWidth - done
          /\ line.filled + line.dots = BarWidth
          /\ line.pct = 2 * done
          /\ line.pct \in 0..100
          /\ (downloaded = total => line.pct = 100)

\* C9: a call that fails after opening the target file leaves the file
\* there with the bytes written so far; the file is never removed, and a
\* later call for a URL and directory with that target issues no request and
\* returns the path of the truncated file.
C9_PartialFileIsCacheHit ==
    [][/\ (pc # "idle" /\ pc' = "idle" /\ result'.kind = "raise" /\ result'.opened)
          => /\ filename_of(call) \in DOMAIN files'
             /\ files'[filename_of(call)] = downloaded'
             /\ filename_of(call) \in partial'
       /\ \A p \in partial : p \in DOMAIN files' /\ p \in partial'
       /\ \A u \in URLs, d \in Dirs :
            (pc = "idle" /\ Target(u, d) \in partial
               /\ call' = [url |-> u, download_path |-> d])
            => /\ pc' = "idle"
               /\ gets' = 0
               /\ files' = files
               /\ result' = Returned(Target(u, d))]_vars

\* C9 witness: a call was answered from the cache with a one-byte file that
\* a failed call had left behind.
C9_Witness ==
    /\ pc = "idle" /\ result.kind = "return" /\ gets = 0
    /\ line.kind = "already downloaded"
    /\ result.path \in partial
    /\ files[result.path] = 1

\* C10: a call that fails on the HTTP status issued exactly one GET and
\* never created the target file, so the target path is absent after it and
\* the next call for the same URL and directory goes to the network again.
C10_StatusFailureLeavesNoFile ==
    [][/\ (pc' = "idle" /\ result'.kind = "raise" /\ result'.error \in HttpStatusErrors)
          => /\ gets' = 1
             /\ files' = files
             /\ ~ExistsIn(filename_of(call'), dirs', files')
             /\ call'.download_path \in dirs'
       /\ (pc = "idle" /\ result.kind = "raise" /\ result.error \in HttpStatusErrors
             /\ call' = call)
          => pc' = "get" /\ gets' = 0
       /\ pc = "get" => gets' = gets + 1]_vars

\* C10 witness: a call failed with MissingNetworkResourceError after one
\* GET, in a directory it created, with no file at its target path.
C10_Witness ==
    /\ pc = "idle" /\ result.kind = "raise"
    /\ result.error = "MissingNetworkResourceError"
    /\ gets = 1
    /\ call.download_path \in dirs
    /\ ~Exists(filename_of(call))

(***************************************************************************)
(* Properties of create_config and parse_config.                           *)
(***************************************************************************)
\* The required parameters of a class that a mapping lacks, in the order of
\* their declaration.
MissingDeclared(klass, config) ==
    SelectSeq(klass.params,
              LAMBDA n : n \notin klass.defaults /\ n \notin DOMAIN config)

HasRequired(klass, config) == MissingDeclared(klass, config) = <<>>

\* C3: when the mapping lacks a required parameter, create_config fails
\* with BriefcaseConfigError "<msg> is incomplete (missing ...)", listing
\* exactly the required names the mapping lacks, each quoted and once,
\* comma-separated, in the order of their declaration.
C3_MissingFieldReport ==
    (cc_result.kind # "none" /\ ~HasRequired(cc_klass, cc_config))
    => cc_result =
         incomplete_error(cc_msg,
             join(", ", map_quote(MissingDeclared(cc_klass, cc_config))))

\* C4: when the mapping has every required parameter and the construction
\* fails all the same, create_config raises the error of the construction,
\* unmodified, and no BriefcaseConfigError.
C4_OtherFailuresPropagate ==
    (/\ cc_result.kind # "none"
     /\ HasRequired(cc_klass, cc_config)
     /\ Construct(cc_klass, cc_config).kind = "raise")
    => /\ cc_result = Construct(cc_klass, cc_config)
       /\ cc_result.error # "BriefcaseConfigError"

\* An instance of klass whose declared fields hold the values of config.
IsInstanceWith(r, klass, config) ==
    /\ r.kind = "return"
    /\ r.value.klass = klass
    /\ \A n \in Range(klass.params) \cap DOMAIN config : r.value.fields[n] = config[n]

\* C5, as stated: whenever the mapping has every required parameter,
\* create_config returns an instance whose declared fields equal the
\* mapping's values, additional keys or not.
C5_CompleteMappingSucceeds ==
    (cc_result.kind # "none" /\ HasRequired(cc_klass, cc_config))
    => IsInstanceWith(cc_result, cc_klass, cc_config)

\* C5, amended: when the mapping has every required parameter, each of its
\* keys is a declared parameter or the class takes **kwargs, and the body of
\* the constructor raises nothing, create_config returns an instance whose
\* declared fields equal the mapping's values.
C5_AcceptedMappingSucceeds ==
    (/\ cc_result.kind # "none"
     /\ HasRequired(cc_klass, cc_config)
     /\ (cc_klass.kwargs \/ DOMAIN cc_config \subseteq Range(cc_klass.params))
     /\ ~(cc_klass.raises # "none" /\ \E k \in DOMAIN cc_config : cc_config[k] = "bad"))
    => IsInstanceWith(cc_result, cc_klass, cc_config)

\* C5 witness: a class with a required parameter and **kwargs was built
\* from a mapping with an additional key.
C5_Witness ==
    /\ cc_result.kind = "return"
    /\ cc_klass.kwargs
    /\ Range(cc_klass.params) \ cc_klass.defaults # {}
    /\ DOMAIN cc_config \ Range(cc_klass.params) # {}

\* C6: parse_config on a file that does not exist fails with
\* BriefcaseConfigError('configuration file not found') and leaves
\* global_config and apps as they were; no other failure (content that does
\* not parse, a missing field) is reported with that message.
C6_MissingConfigFile ==
    [][/\ cfg_call' \notin DOMAIN fs
          => cfg_result' = NotFound /\ UNCHANGED <<global_config, apps>>
       /\ cfg_result' = NotFound => cfg_call' \notin DOMAIN fs]_vars

\* C6 witness: after a file was loaded, a call on a missing file failed
\* with 'configuration file not found', the loaded configuration still there.
C6_Witness ==
    /\ cfg_result = NotFound
    /\ cfg_call \notin DOMAIN fs
    /\ global_config.kind = "instance"
    /\ apps # <<>>

=============================================================================
